---------------------------- MODULE Spec2Model ----------------------------
(***************************************************************************)
(* A state-machine model of the two tool servers of the repository:        *)
(*   src/src/mssql_mcp_server/server.py  (variant "sql")                    *)
(*   src/src/slack_mcp_server/server.py  (variant "slack")                  *)
(* One behaviour is one run of one server process: the configuration is    *)
(* loaded, the lifespan starts the backend client, requests are handled    *)
(* one handler call per step, and the lifespan is torn down.               *)
(*                                                                         *)
(* Python values: a str is a tuple of one-character strings, None is the   *)
(* tuple <<"None">> (no str, since "None" is not one character), a dict is *)
(* a function, a list is a sequence.  Names of tools, of config keys, of   *)
(* exception types and log formats are TLA+ strings.                       *)
(***************************************************************************)
EXTENDS Integers, Sequences, FiniteSets, TLC

VARIABLES
    variant,          \* which server this process runs: "sql" or "slack"
    pc,               \* position of the process (main / server_lifespan)
    os_environ,       \* os.environ: sequence of [key, value], insertion order
    dotenv,           \* the .env file beside the package: [exists, entries]
    config,           \* what the last config loader call returned: [returned, value]
    configLoads,      \* number of config loader calls of this run
    loaderLog,        \* log records of the last config loader call
    db,               \* the lifespan's local `db`: [bound, server, database]
    connection,       \* MicrosoftAzureSQL.__connection: None, ConnOpen, ConnClosed
    connectCalls,     \* number of connect() calls of this run
    connectFrame,     \* connect() while it runs: its token and converted_token
    disconnectCalls,  \* number of disconnect() calls of this run
    resources,        \* the lifespan's `resources` list (ServerContext.resources)
    yielded,          \* whether the lifespan has yielded a ServerContext
    startupFailure,   \* the first exception raised during startup, or NoExc
    teardownFailure,  \* the exception raised inside the finally block, or NoExc
    exitError,        \* the exception the lifespan/main ends with, or NoExc
    user_token,       \* SlackClient.user_token
    bot_headers,      \* SlackClient.bot_headers: None or <<"Bearer", token>>
    authOk,           \* whether an authenticate call has returned normally
    pending,          \* requests delivered by the host whose handler has not begun
    running,          \* handler invocations that have begun and not yet returned
    handled,          \* number of requests handled so far
    lastReq,          \* the last request: [handler, name, arguments, authedBefore]
    response,         \* the last handler's outcome: [kind, fmt, body, exc]
    backendOps,       \* backend operations issued by the last handler
    requestLog        \* log records of the last handler

vars == <<variant, pc, os_environ, dotenv, config, configLoads, loaderLog, db,
          connection, connectCalls, connectFrame, disconnectCalls, resources,
          yielded, startupFailure, teardownFailure, exitError, user_token, bot_headers,
          authOk, pending, running, handled, lastReq, response, backendOps,
          requestLog>>

---------------------------------------------------------------------------
(* Bounds of the model *)

\* requests one run handles before it is stopped
MaxRequests == 2

---------------------------------------------------------------------------
(* Python strings *)

None == <<"None">>

LowerChars == <<"a", "b", "c", "d", "e", "f", "g", "h", "i", "j", "k", "l", "m",
                "n", "o", "p", "q", "r", "s", "t", "u", "v", "w", "x", "y", "z">>
UpperChars == <<"A", "B", "C", "D", "E", "F", "G", "H", "I", "J", "K", "L", "M",
                "N", "O", "P", "Q", "R", "S", "T", "U", "V", "W", "X", "Y", "Z">>

\* str.upper() on one character
UpperChar(c) ==
    IF \E i \in DOMAIN LowerChars : LowerChars[i] = c
    THEN UpperChars[CHOOSE i \in DOMAIN LowerChars : LowerChars[i] = c]
    ELSE c

\* str.upper()
Upper(s) == IF s = <<>> THEN <<>> ELSE [i \in 1..Len(s) |-> UpperChar(s[i])]

IsSpace(c) == c \in {" ", "\t", "\n", "\r"}

SetMin(S) == CHOOSE x \in S : \A y \in S : x <= y
SetMax(S) == CHOOSE x \in S : \A y \in S : y <= x

\* str.strip(): leading and trailing whitespace removed
Strip(s) ==
    LET keep == {i \in DOMAIN s : ~IsSpace(s[i])}
    IN  IF keep = {} THEN <<>> ELSE SubSeq(s, SetMin(keep), SetMax(keep))

\* str.startswith(prefix)
StartsWith(s, prefix) ==
    /\ Len(s) >= Len(prefix)
    /\ SubSeq(s, 1, Len(prefix)) = prefix

\* `sub in s` for strs
Contains(sub, s) ==
    \E i \in 1..(Len(s) - Len(sub) + 1) : SubSeq(s, i, i + Len(sub) - 1) = sub

\* '*' * n
Stars(n) == [i \in 1..n |-> "*"]

\* Python truthiness of a str-or-None value: `not value`
Falsy_empty_only(value) == value = <<>>
Falsy(value) == value = None \/ value = <<>>

\* Exceptions: [type, msg]; msg is the sequence of the message's parts.
NoExc == [type |-> "None", msg |-> <<>>]
Exc(type, msg) == [type |-> type, msg |-> msg]

---------------------------------------------------------------------------
(* Environment and configuration loading *)

AZURE_SQL_HOST == <<"A", "Z", "U", "R", "E", "_", "S", "Q", "L", "_", "H", "O", "S", "T">>
AZURE_SQL_DATABASE == <<"A", "Z", "U", "R", "E", "_", "S", "Q", "L", "_", "D", "A", "T", "A", "B", "A", "S", "E">>
AZURE_CLIENT_ID == <<"A", "Z", "U", "R", "E", "_", "C", "L", "I", "E", "N", "T", "_", "I", "D">>
AZURE_CLIENT_SECRET == <<"A", "Z", "U", "R", "E", "_", "C", "L", "I", "E", "N", "T", "_", "S", "E", "C", "R", "E", "T">>
AZURE_TENANT_ID == <<"A", "Z", "U", "R", "E", "_", "T", "E", "N", "A", "N", "T", "_", "I", "D">>
SLACK_ORGANIZATION_ID == <<"S", "L", "A", "C", "K", "_", "O", "R", "G", "A", "N", "I", "Z", "A", "T", "I", "O", "N", "_", "I", "D">>
SLACK_CLIENT_ID == <<"S", "L", "A", "C", "K", "_", "C", "L", "I", "E", "N", "T", "_", "I", "D">>
SLACK_CLIENT_SECRET == <<"S", "L", "A", "C", "K", "_", "C", "L", "I", "E", "N", "T", "_", "S", "E", "C", "R", "E", "T">>
\* two variables of the process environment that are no configuration
PATH_KEY == <<"P", "A", "T", "H">>
MYSQL_PWD_KEY == <<"m", "y", "s", "q", "l", "_", "p", "w", "d">>

AZURE == <<"A", "Z", "U", "R", "E">>
SQL == <<"S", "Q", "L">>
SLACK == <<"S", "L", "A", "C", "K">>

\* The `config = {...}` dict of each loader, in source order: config key and
\* the environment variable it is read from.
SqlConfigKeys ==
    << [key |-> "server",        env |-> AZURE_SQL_HOST],
       [key |-> "database",      env |-> AZURE_SQL_DATABASE],
       [key |-> "client_id",     env |-> AZURE_CLIENT_ID],
       [key |-> "client_secret", env |-> AZURE_CLIENT_SECRET],
       [key |-> "tenant_id",     env |-> AZURE_TENANT_ID] >>

SlackConfigKeys ==
    << [key |-> "organization_id", env |-> SLACK_ORGANIZATION_ID],
       [key |-> "client_id",       env |-> SLACK_CLIENT_ID],
       [key |-> "client_secret",   env |-> SLACK_CLIENT_SECRET] >>

ConfigKeys(v) == IF v = "sql" THEN SqlConfigKeys ELSE SlackConfigKeys

\* The substrings that make an environment variable "relevant" to the log.
LogFilter(v) == IF v = "sql" THEN {AZURE, SQL} ELSE {SLACK}

\* The message of the ValueError each loader raises.
ConfigErrorMsg(v) ==
    IF v = "sql" THEN <<"Missing", "required", "database", "configuration">>
                 ELSE <<"Missing", "required", "Slack", "configuration">>

\* The third logger.error line of each loader.
RequiredHint(v) ==
    IF v = "sql"
    THEN "AZURE_SQL_HOST, AZURE_SQL_DATABASE, AZURE_CLIENT_ID, AZURE_CLIENT_SECRET, and AZURE_TENANT_ID are required"
    ELSE "SLACK_ORGANIZATION_ID, SLACK_CLIENT_ID, and SLACK_CLIENT_SECRET are required"

\* os.getenv(key): the value, or None when the key is not set
getenv(environ, key) ==
    IF \E i \in DOMAIN environ : environ[i].key = key
    THEN environ[CHOOSE i \in DOMAIN environ : environ[i].key = key].value
    ELSE None

\* load_dotenv(env_path): every entry of the file whose key is not yet in the
\* environment is appended to it (the environment wins over the file).
load_dotenv(environ, entries) ==
    environ \o SelectSeq(entries,
                         LAMBDA e : ~\E i \in DOMAIN environ : environ[i].key = e.key)

LogRec(level, fmt, args) == [level |-> level, fmt |-> fmt, args |-> args]

\* The "{key}: ****" lines: one per environment variable whose upper-cased
\* name contains one of the filter substrings, the value masked star by star.
MaskedLines(v, environ) ==
    LET relevant == SelectSeq(environ,
                        LAMBDA e : \E f \in LogFilter(v) : Contains(f, Upper(e.key)))
    IN  [i \in 1..Len(relevant) |->
            LogRec("INFO", "{key}: {mask}",
                   <<relevant[i].key, Stars(Len(relevant[i].value))>>)]

\* missing_vars: the config keys whose value is None or empty, in dict order
missing_vars_unset_only(v, environ) ==
    LET unset == SelectSeq(ConfigKeys(v), LAMBDA c : getenv(environ, c.env) = None)
    IN  [i \in 1..Len(unset) |-> unset[i].key]
missing_vars(v, environ) ==
    LET falsy == SelectSeq(ConfigKeys(v), LAMBDA c : Falsy(getenv(environ, c.env)))
    IN  [i \in 1..Len(falsy) |-> falsy[i].key]

\* get_db_config() / get_server_config(): the environment after the call, the
\* log records, and either the config dict (result) or the exception raised.
get_config(v, environ, file) ==
    LET env1    == IF file.exists THEN load_dotenv(environ, file.entries) ELSE environ
        missing == missing_vars(v, env1)
        head    == << LogRec("INFO", "Loading configuration from {env_path}", <<>>),
                      LogRec("INFO", "Available environment variables:", <<>>) >>
                   \o MaskedLines(v, env1)
        keys    == ConfigKeys(v)
    IN  IF missing # <<>>
        THEN [environ |-> env1,
              log     |-> head \o
                          << LogRec("ERROR", "Missing environment variables: {join}", missing),
                             LogRec("ERROR", "Please check environment variables or .env file:", <<>>),
                             LogRec("ERROR", RequiredHint(v), <<>>) >>,
              result  |-> None,
              exc     |-> Exc("ValueError", ConfigErrorMsg(v))]
        ELSE [environ |-> env1,
              log     |-> head,
              result  |-> [k \in {keys[i].key : i \in DOMAIN keys} |->
                              getenv(env1, keys[CHOOSE i \in DOMAIN keys : keys[i].key = k].env)],
              exc     |-> NoExc]

---------------------------------------------------------------------------
(* Result rows and the result codec *)

\* A value of a result row, as the driver hands it over: its Python type, the
\* attributes json_serial probes with hasattr, str(obj) (None when str(obj)
\* raises), obj.isoformat() and, for bytes, obj.decode('utf-8') (None when
\* the bytes are no UTF-8).
PyVal(type, attrs, str, iso, decoded) ==
    [type |-> type, attrs |-> attrs, str |-> str, iso |-> iso, decoded |-> decoded]

PyStr(s) == PyVal("str", {}, s, None, None)
PyInt1 == PyVal("int", {}, <<"1">>, None, None)
PyDatetime ==
    PyVal("datetime", {"isoformat"},
          <<"2", "0", "2", "4", "-", "0", "1", "-", "0", "2", " ", "0", "3", ":", "0", "4", ":", "0", "5">>,
          <<"2", "0", "2", "4", "-", "0", "1", "-", "0", "2", "T", "0", "3", ":", "0", "4", ":", "0", "5">>,
          None)
PyDecimal == PyVal("Decimal", {"to_eng_string"}, <<"1", ".", "5", "0">>, None, None)
PyBytes == PyVal("bytes", {}, <<"b", "'", "a", "b", "'">>, None, <<"a", "b">>)
PyBytesNotUtf8 == PyVal("bytes", {}, <<"b", "'", "\\", "x", "f", "f", "'">>, None, None)
PyUuid == PyVal("UUID", {}, <<"6", "f", "1", "c">>, None, None)

\* the types json.dumps serialises without calling `default`
JsonNativeTypes == {"int", "str", "float", "bool", "NoneType"}

\* json_serial(obj): the first matching rule decides
json_serial_str_first(obj) == [exc |-> NoExc, value |-> obj.str]
json_serial(obj) ==
    IF "isoformat" \in obj.attrs
    THEN [exc |-> NoExc, value |-> obj.iso]
    ELSE IF "to_eng_string" \in obj.attrs
    THEN [exc |-> NoExc, value |-> obj.str]
    ELSE IF obj.type = "bytes"
    THEN IF obj.decoded = None
         THEN [exc |-> Exc("UnicodeDecodeError", <<"invalid start byte">>), value |-> None]
         ELSE [exc |-> NoExc, value |-> obj.decoded]
    ELSE [exc |-> NoExc, value |-> obj.str]

\* One value as json.dumps(data, default=json_serial) encodes it.
JsonEncode(obj) ==
    IF obj.type \in JsonNativeTypes
    THEN [exc |-> NoExc, json |-> "native", value |-> obj.str]
    ELSE LET r == json_serial(obj)
         IN  [exc |-> r.exc,
              json |-> IF r.value = None THEN "null" ELSE "string",
              value |-> r.value]

\* dict_list_to_json(data): the encoded rows, or the exception json_serial raised
dict_list_to_json(data) ==
    LET cells == UNION {{<<i, c>> : c \in DOMAIN data[i]} : i \in DOMAIN data}
        bad   == {p \in cells : JsonEncode(data[p[1]][p[2]]).exc # NoExc}
    IN  IF bad # {}
        THEN [exc  |-> JsonEncode(LET p == CHOOSE p \in bad : TRUE IN data[p[1]][p[2]]).exc,
              json |-> <<>>]
        ELSE [exc  |-> NoExc,
              json |-> [i \in 1..Len(data) |->
                           [c \in DOMAIN data[i] |->
                               LET e == JsonEncode(data[i][c])
                               IN  [json |-> e.json, value |-> e.value]]]]

---------------------------------------------------------------------------
(* The SQL backend client: MicrosoftAzureSQL *)

\* SQL text handed to cursor.execute: the text itself, or one of the two
\* fixed metadata queries with what is interpolated into it.
SqlText(text) == [tmpl |-> "{text}", args |-> <<text>>]
get_all_table_query == [tmpl |-> "get_all_table_query", args |-> <<>>]
get_table_schema_query(schema, table) ==
    [tmpl |-> "get_table_schema_query", args |-> <<schema, table>>]

NoSql == [tmpl |-> "", args |-> <<>>]
BackendOp(op, sql) == [op |-> op, sql |-> sql]

\* The connection handle pyodbc.connect returns, open or closed.
ConnOpen == <<"pyodbc.Connection", "open">>
ConnClosed == <<"pyodbc.Connection", "closed">>

\* bytes(c, "UTF-8") for one character, given by its code point
Utf8Char(cp) ==
    IF cp < 128 THEN <<cp>>
    ELSE IF cp < 2048 THEN <<192 + (cp \div 64), 128 + (cp % 64)>>
    ELSE IF cp < 65536
    THEN <<224 + (cp \div 4096), 128 + ((cp \div 64) % 64), 128 + (cp % 64)>>
    ELSE <<240 + (cp \div 262144), 128 + ((cp \div 4096) % 64),
           128 + ((cp \div 64) % 64), 128 + (cp % 64)>>

RECURSIVE Utf8(_)
\* bytes(s, "UTF-8"): s is the sequence of the code points of the str
Utf8(s) == IF s = <<>> THEN <<>> ELSE Utf8Char(Head(s)) \o Utf8(Tail(s))

\* struct.pack("=i", n): n as a 32-bit two's complement integer (floored
\* division gives the bytes of a negative n too), its four bytes in the byte
\* order of the host ("=" is native order, standard size)
struct_pack_i(order, n) ==
    LET le == <<n % 256, (n \div 256) % 256, (n \div 65536) % 256, (n \div 16777216) % 256>>
    IN  IF order = "little" THEN le ELSE <<le[4], le[3], le[2], le[1]>>

RECURSIVE Expand(_)
\* the loop of __convert_token: every byte of tokenb followed by bytes(1)
Expand_no_padding(tokenb) == tokenb
Expand(tokenb) ==
    IF tokenb = <<>> THEN <<>> ELSE <<Head(tokenb), 0>> \o Expand(Tail(tokenb))

\* __convert_token(token): token["accessToken"] packed for the driver
convert_token(accessToken, order) ==
    LET tokenb   == Utf8(accessToken)
        exptoken == Expand(tokenb)
    IN  struct_pack_i(order, Len(exptoken)) \o exptoken

\* the frame of connect() when connect() is not running
NoFrame == [live |-> FALSE, accessToken |-> <<>>, byteorder |-> "", converted_token |-> <<>>]

\* What the driver does during one client call: `fail` names the driver call
\* that raises ("none": none does; "description": the statement produced no
\* result set, so cursor.description is None), `rows` is what fetchall gives.
Behaviour(fail, rows, msg) == [fail |-> fail, rows |-> rows, msg |-> msg]

DriverError(be) == Exc("pyodbc.Error", <<be.msg>>)

\* execute_query(query): [exc, rows, ops]
execute_query(conn, sql, be) ==
    IF conn = None
    THEN [exc |-> Exc("AttributeError", <<"'NoneType' object has no attribute 'cursor'">>),
          rows |-> <<>>, ops |-> <<>>]
    ELSE IF be.fail = "cursor" \/ conn = ConnClosed
    THEN [exc |-> DriverError(be), rows |-> <<>>, ops |-> <<BackendOp("cursor", NoSql)>>]
    ELSE IF be.fail = "execute"
    THEN [exc |-> DriverError(be), rows |-> <<>>,
          ops |-> <<BackendOp("cursor", NoSql), BackendOp("execute", sql)>>]
    ELSE IF be.fail = "description"
    THEN [exc |-> Exc("TypeError", <<"'NoneType' object is not iterable">>), rows |-> <<>>,
          ops |-> <<BackendOp("cursor", NoSql), BackendOp("execute", sql)>>]
    ELSE [exc |-> NoExc, rows |-> be.rows,
          ops |-> <<BackendOp("cursor", NoSql), BackendOp("execute", sql),
                    BackendOp("fetchall", NoSql)>>]

\* execute_insert_instant(query): [exc, ops]
execute_insert_instant_no_commit(conn, sql, be) ==
    IF be.fail \in {"cursor", "execute"}
    THEN [exc |-> DriverError(be), ops |-> <<BackendOp("cursor", NoSql)>>]
    ELSE [exc |-> NoExc, ops |-> <<BackendOp("cursor", NoSql), BackendOp("execute", sql)>>]
execute_insert_instant(conn, sql, be) ==
    IF conn = None
    THEN [exc |-> Exc("AttributeError", <<"'NoneType' object has no attribute 'cursor'">>),
          ops |-> <<>>]
    ELSE IF be.fail = "cursor" \/ conn = ConnClosed
    THEN [exc |-> DriverError(be), ops |-> <<BackendOp("cursor", NoSql)>>]
    ELSE IF be.fail = "execute"
    THEN [exc |-> DriverError(be),
          ops |-> <<BackendOp("cursor", NoSql), BackendOp("execute", sql)>>]
    ELSE IF be.fail = "commit"
    THEN [exc |-> DriverError(be),
          ops |-> <<BackendOp("cursor", NoSql), BackendOp("execute", sql),
                    BackendOp("commit", NoSql)>>]
    ELSE [exc |-> NoExc,
          ops |-> <<BackendOp("cursor", NoSql), BackendOp("execute", sql),
                    BackendOp("commit", NoSql)>>]

---------------------------------------------------------------------------
(* The SQL server's tool catalog and dispatcher *)

\* list_tools(): name and inputSchema["required"] of each tool, in order
SqlTools ==
    << [name |-> "get_tables",       required |-> {}],
       [name |-> "get_table_schema", required |-> {"table", "schema"}],
       [name |-> "execute_sql",      required |-> {"query"}] >>

\* dict.get(key): the value, or None
DictGet(d, key) == IF key \in DOMAIN d THEN d[key] ELSE None

\* A handler's outcome: it returns one text content, or it raises.
TextResult(fmt, body, ops, log) ==
    [kind |-> "text", fmt |-> fmt, body |-> body, exc |-> NoExc, ops |-> ops, log |-> log]
RaisedResult(exc, ops, log) ==
    [kind |-> "raised", fmt |-> "", body |-> <<>>, exc |-> exc, ops |-> ops, log |-> log]

\* `return [TextContent(type="text", text=dict_list_to_json(results))]`
JsonResult(rows, ops, log) ==
    LET j == dict_list_to_json(rows)
    IN  IF j.exc # NoExc THEN RaisedResult(j.exc, ops, log)
                         ELSE TextResult("{json}", j.json, ops, log)

\* query.strip().upper().startswith("SELECT")
IsSelectLike_NoStrip(query) == StartsWith(Upper(query), <<"S", "E", "L", "E", "C", "T">>)
IsSelectLike(query) == StartsWith(Upper(Strip(query)), <<"S", "E", "L", "E", "C", "T">>)

\* The try block of call_tool (execute_sql), whatever it raises caught by
\* `except Exception as e` and turned into the error text.
execute_sql_body(conn, query, be, log) ==
    LET caught(e, ops) ==
            TextResult("Error executing query: {str(e)}", e.msg, ops,
                       log \o <<LogRec("ERROR", "Error executing SQL '{query}': {e}",
                                       <<query, e.msg>>)>>)
    IN  IF IsSelectLike(query)
        THEN LET r == execute_query(conn, SqlText(query), be)
             IN  IF r.exc # NoExc THEN caught(r.exc, r.ops)
                 ELSE IF r.rows = <<>>
                 THEN TextResult("No results found", <<>>, r.ops, log)
                 ELSE LET j == JsonResult(r.rows, r.ops, log)
                      IN  IF j.kind = "raised" THEN caught(j.exc, r.ops) ELSE j
        ELSE LET r == execute_insert_instant(conn, SqlText(query), be)
             IN  IF r.exc # NoExc THEN caught(r.exc, r.ops)
                 ELSE TextResult("Query executed successfully", <<>>, r.ops, log)

\* `name in ["execute_sql", "get_tables", "get_table_schema"]`
SqlKnownTool_Any(name) == TRUE
SqlKnownTool(name) == name \in {"execute_sql", "get_tables", "get_table_schema"}

\* call_tool(name, arguments) of the SQL server
sql_call_tool(conn, name, arguments, be) ==
    LET log == <<LogRec("INFO", "Calling tool: {name} with arguments: {arguments}",
                        <<name, arguments>>)>>
    IN  IF ~SqlKnownTool(name)
        THEN RaisedResult(Exc("ValueError", <<"Unknown tool: ", name>>), <<>>, log)
        ELSE IF name = "get_tables"
        THEN LET r == execute_query(conn, get_all_table_query, be)
             IN  IF r.exc # NoExc THEN RaisedResult(r.exc, r.ops, log)
                                  ELSE JsonResult(r.rows, r.ops, log)
        ELSE IF name = "get_table_schema"
        THEN LET table  == DictGet(arguments, "table")
                 schema == DictGet(arguments, "schema")
             IN  IF Falsy(table)
                 THEN RaisedResult(Exc("ValueError", <<"Table is required">>), <<>>, log)
                 ELSE IF Falsy(schema)
                 THEN RaisedResult(Exc("ValueError", <<"Schema is required">>), <<>>, log)
                 ELSE LET r == execute_query(conn, get_table_schema_query(schema, table), be)
                      IN  IF r.exc # NoExc THEN RaisedResult(r.exc, r.ops, log)
                                           ELSE JsonResult(r.rows, r.ops, log)
        ELSE LET query == DictGet(arguments, "query")
             IN  IF Falsy(query)
                 THEN RaisedResult(Exc("ValueError", <<"Query is required">>), <<>>, log)
                 ELSE execute_sql_body(conn, query, be, log)

---------------------------------------------------------------------------
(* Resources of the SQL server *)

RECURSIVE SplitFrom(_, _, _, _)
\* str.split(sep): cur is the part being read, i the next character
SplitFrom(s, sep, i, cur) ==
    IF i > Len(s) THEN <<cur>>
    ELSE IF s[i] = sep THEN <<cur>> \o SplitFrom(s, sep, i + 1, <<>>)
    ELSE SplitFrom(s, sep, i + 1, Append(cur, s[i]))

Split(s, sep) == SplitFrom(s, sep, 1, <<>>)

\* parse_uri(uri): parts[2] .. parts[5] of uri.split('/') (0-based), or the
\* IndexError of the first missing part
parse_uri(uri) ==
    LET parts == Split(uri, "/")
    IN  IF Len(parts) < 6
        THEN [exc |-> Exc("IndexError", <<"list index out of range">>),
              server |-> None, database |-> None, schema |-> None, table |-> None]
        ELSE [exc |-> NoExc, server |-> parts[3], database |-> parts[4],
              schema |-> parts[5], table |-> parts[6]]

UriScheme == <<"a", "z", "u", "r", "e", "s", "q", "l", ":", "/", "/">>

\* The Resource built for one row of the table listing.
MakeResource(server, database, row) ==
    LET schema == row["SchemaName"].str
        table  == row["TableName"].str
    IN  [uri  |-> UriScheme \o server \o <<"/">> \o database \o <<"/">> \o schema
                  \o <<"/">> \o table \o <<"/", "d", "a", "t", "a">>,
         name |-> schema \o <<".">> \o table,
         mimeType |-> "text/plain",
         description |-> <<"D", "a", "t", "a", " ", "i", "n", " ", "t", "a", "b", "l", "e", ":", " ">>
                         \o schema \o <<".">> \o table]

\* read_resource(uri)
read_resource(conn, uri_str, be) ==
    LET log == <<LogRec("INFO", "Reading resource: {uri_str}", <<uri_str>>)>>
    IN  IF ~StartsWith(uri_str, UriScheme)
        THEN RaisedResult(Exc("ValueError", <<"Invalid URI scheme: {uri_str}">>), <<>>, log)
        ELSE LET log2 == log \o <<LogRec("INFO", "Parsing URI: {uri_str}", <<uri_str>>)>>
                 u    == parse_uri(uri_str)
             IN  IF u.exc # NoExc THEN RaisedResult(u.exc, <<>>, log2)
                 ELSE LET r == execute_query(conn,
                                   SqlText(<<"S", "E", "L", "E", "C", "T", " ", "*", " ", "F", "R", "O", "M", " ">>
                                           \o u.schema \o <<".">> \o u.table), be)
                      IN  IF r.exc # NoExc THEN RaisedResult(r.exc, r.ops, log2)
                                           ELSE JsonResult(r.rows, r.ops, log2)

\* list_resources(): resource.to_dict() of every resource of the context
list_resources_requery(res) ==
    [kind |-> "list", fmt |-> "{resources}", body |-> res, exc |-> NoExc,
     ops |-> <<BackendOp("cursor", NoSql), BackendOp("execute", get_all_table_query),
               BackendOp("fetchall", NoSql)>>,
     log |-> <<LogRec("INFO", "Listing resources...", <<>>)>>]
list_resources(res) ==
    [kind |-> "list", fmt |-> "{resources}", body |-> res, exc |-> NoExc,
     ops |-> <<>>, log |-> <<LogRec("INFO", "Listing resources...", <<>>)>>]

---------------------------------------------------------------------------
(* The Slack backend client: SlackClient *)

\* What the network does for the one HTTP request of a client call: the
\* request raises (fail), or response.json() is `json`.
Net(fail, json) == [fail |-> fail, json |-> json]

HttpRequest(method, url, headers, data) ==
    [method |-> method, url |-> url, headers |-> headers, data |-> data]

\* requests.get / requests.post followed by response.json(): [exc, result, http]
HttpCall(method, url, headers, data, net) ==
    [exc    |-> IF net.fail THEN Exc("requests.ConnectionError", <<"connection failed">>)
                            ELSE NoExc,
     result |-> net.json,
     http   |-> <<HttpRequest(method, url, headers, data)>>]

Min2(a, b) == IF a <= b THEN a ELSE b

\* authenticate_user(code): [exc, result, http, user_token, bot_headers]
authenticate_user(tok, hdr, code, net) ==
    LET c == HttpCall("POST", "https://slack.com/api/oauth.v2.access", None,
                      [code |-> code], net)
    IN  IF c.exc # NoExc
        THEN [exc |-> c.exc, result |-> c.result, http |-> c.http,
              user_token |-> tok, bot_headers |-> hdr]
        ELSE IF "ok" \in DOMAIN c.result /\ c.result["ok"]
        THEN [exc |-> NoExc, result |-> c.result, http |-> c.http,
              user_token |-> DictGet(c.result, "access_token"),
              bot_headers |-> <<"Bearer", DictGet(c.result, "access_token")>>]
        ELSE [exc |-> Exc("Exception", <<"Authentication failed: {error}">>),
              result |-> c.result, http |-> c.http,
              user_token |-> tok, bot_headers |-> hdr]

\* get_channels(limit): the one client call that checks bot_headers first
get_channels(hdr, limit, net) ==
    IF hdr = None
    THEN [exc |-> Exc("Exception", <<"Not authenticated. Please authenticate first.">>),
          result |-> <<>>, http |-> <<>>]
    ELSE HttpCall("GET", "https://slack.com/api/conversations.list", hdr,
                  [limit |-> Min2(limit, 200)], net)

post_message(hdr, channel_id, text, net) ==
    HttpCall("POST", "https://slack.com/api/chat.postMessage", hdr,
             [channel |-> channel_id, text |-> text], net)

post_reply(hdr, channel_id, thread_ts, text, net) ==
    HttpCall("POST", "https://slack.com/api/chat.postMessage", hdr,
             [channel |-> channel_id, thread_ts |-> thread_ts, text |-> text], net)

add_reaction(hdr, channel_id, timestamp, reaction, net) ==
    HttpCall("POST", "https://slack.com/api/reactions.add", hdr,
             [channel |-> channel_id, timestamp |-> timestamp, name |-> reaction], net)

get_channel_history(hdr, channel_id, net) ==
    HttpCall("GET", "https://slack.com/api/conversations.history", hdr,
             [channel |-> channel_id, limit |-> 10], net)

get_thread_replies(hdr, channel_id, thread_ts, net) ==
    HttpCall("GET", "https://slack.com/api/conversations.replies", hdr,
             [channel |-> channel_id, ts |-> thread_ts], net)

get_users(hdr, limit, net) ==
    HttpCall("GET", "https://slack.com/api/users.list", hdr,
             [limit |-> Min2(limit, 200)], net)

---------------------------------------------------------------------------
(* The Slack server's tool catalog and dispatcher *)

\* list_tools(): name and inputSchema["required"] of each tool, in order
SlackTools ==
    << [name |-> "get_auth_url",        required |-> {}],
       [name |-> "authenticate",        required |-> {"code"}],
       [name |-> "get_channels",        required |-> {"limit"}],
       [name |-> "post_message",        required |-> {"channel_id", "text"}],
       [name |-> "post_reply",          required |-> {"channel_id", "thread_ts", "text"}],
       [name |-> "add_reaction",        required |-> {"channel_id", "timestamp", "reaction"}],
       [name |-> "get_channel_history", required |-> {"channel_id"}],
       [name |-> "get_thread_replies",  required |-> {"channel_id", "thread_ts"}],
       [name |-> "get_users",           required |-> {"limit"}] >>

\* The keys each branch of call_tool subscripts `arguments` with, in the
\* order the call expression evaluates them.
SlackCallArgs(name) ==
    CASE name = "authenticate"        -> <<"code">>
      [] name = "get_channels"        -> <<"limit">>
      [] name = "post_message"        -> <<"channel_id", "text">>
      [] name = "post_reply"          -> <<"channel_id", "thread_ts", "text">>
      [] name = "add_reaction"        -> <<"channel_id", "timestamp", "reaction">>
      [] name = "get_channel_history" -> <<"channel_id">>
      [] name = "get_thread_replies"  -> <<"channel_id", "thread_ts">>
      [] name = "get_users"           -> <<"limit">>
      [] OTHER                        -> <<>>

\* The client call of one branch, its arguments already read.
SlackClientCall(hdr, name, a, net) ==
    CASE name = "get_channels"        -> get_channels(hdr, a["limit"], net)
      [] name = "post_message"        -> post_message(hdr, a["channel_id"], a["text"], net)
      [] name = "post_reply"          ->
            post_reply(hdr, a["channel_id"], a["thread_ts"], a["text"], net)
      [] name = "add_reaction"        ->
            add_reaction(hdr, a["channel_id"], a["timestamp"], a["reaction"], net)
      [] name = "get_channel_history" -> get_channel_history(hdr, a["channel_id"], net)
      [] name = "get_thread_replies"  ->
            get_thread_replies(hdr, a["channel_id"], a["thread_ts"], net)
      [] name = "get_users"           -> get_users(hdr, a["limit"], net)

\* call_tool(name, arguments) of the Slack server: the handler's outcome and
\* the client's fields after it.  Whatever the try block raises is logged by
\* the except clause and raised again.
slack_call_tool(tok, hdr, name, arguments, net) ==
    LET log == <<LogRec("INFO", "Calling tool: {name} with arguments: {arguments}",
                        <<name, arguments>>)>>
        errlog == log \o
            << LogRec("ERROR", "Error calling tool: {name} with arguments: {arguments}",
                      <<name, arguments>>),
               LogRec("ERROR", "Error: {e}", <<>>) >>
        out(res, t, h) == [res |-> res, user_token |-> t, bot_headers |-> h]
        keys == SlackCallArgs(name)
        absent == {i \in DOMAIN keys : keys[i] \notin DOMAIN arguments}
    IN  IF name = "get_auth_url"
        THEN out(TextResult("{json}", <<[auth_url |-> "https://slack.com/oauth/v2/authorize"]>>,
                            <<>>, log), tok, hdr)
        ELSE IF name \notin {SlackTools[i].name : i \in DOMAIN SlackTools}
        THEN out(RaisedResult(Exc("ValueError", <<"Unknown tool: ", name>>), <<>>, errlog),
                 tok, hdr)
        ELSE IF absent # {}
        THEN out(RaisedResult(Exc("KeyError", <<keys[SetMin(absent)]>>), <<>>, errlog),
                 tok, hdr)
        ELSE IF name = "authenticate"
        THEN LET r == authenticate_user(tok, hdr, arguments["code"], net)
             IN  IF r.exc # NoExc
                 THEN out(RaisedResult(r.exc, r.http, errlog), r.user_token, r.bot_headers)
                 ELSE IF "access_token" \notin DOMAIN r.result
                 THEN out(RaisedResult(Exc("KeyError", <<"access_token">>), r.http, errlog),
                          r.user_token, r.bot_headers)
                 ELSE \* set_user_token(results["access_token"])
                      out(TextResult("{json}", <<r.result>>, r.http, log),
                          r.result["access_token"],
                          <<"Bearer", r.result["access_token"]>>)
        ELSE LET r == SlackClientCall(hdr, name, arguments, net)
             IN  IF r.exc # NoExc
                 THEN out(RaisedResult(r.exc, r.http, errlog), tok, hdr)
                 ELSE out(TextResult("{json}", <<r.result>>, r.http, log), tok, hdr)

---------------------------------------------------------------------------
(* Lifespan teardown *)

\* disconnect(): self.__connection.close(); `closes` says whether the driver's
\* close() succeeds on an open connection.
disconnect(conn, closes) ==
    IF conn = None
    THEN [exc |-> Exc("AttributeError", <<"'NoneType' object has no attribute 'close'">>),
          connection |-> conn]
    ELSE IF conn = ConnClosed \/ ~closes
    THEN [exc |-> Exc("pyodbc.Error", <<"close failed">>), connection |-> conn]
    ELSE [exc |-> NoExc, connection |-> ConnClosed]

\* The finally block of the SQL server_lifespan: `db.disconnect()`, run with
\* `inflight` (NoExc when none) on its way out.  An exception raised here
\* replaces the one in flight.
sql_finally_not_on_error(dbv, conn, inflight, closes) ==
    IF inflight # NoExc
    THEN [calls |-> 0, connection |-> conn, raised |-> NoExc, exit |-> inflight]
    ELSE LET d == disconnect(conn, closes)
         IN  [calls |-> 1, connection |-> d.connection, raised |-> d.exc, exit |-> d.exc]
sql_finally(dbv, conn, inflight, closes) ==
    IF ~dbv.bound
    THEN [calls |-> 0, connection |-> conn,
          raised |-> Exc("UnboundLocalError", <<"db">>),
          exit   |-> Exc("UnboundLocalError", <<"db">>)]
    ELSE LET d == disconnect(conn, closes)
         IN  [calls |-> 1, connection |-> d.connection, raised |-> d.exc,
              exit  |-> IF d.exc # NoExc THEN d.exc ELSE inflight]

---------------------------------------------------------------------------
(* Inputs *)

\* values an environment variable or a .env entry may hold (None: not set)
EnvValues == {None, <<>>, <<"h", "1">>}

EnvEntry(key, value) == [key |-> key, value |-> value]

\* os.environ at process start: PATH, the configuration variables that are
\* set (f gives each one's value), and one unrelated variable.
InitialEnv(v, f) ==
    LET keys == ConfigKeys(v)
        set  == SelectSeq(keys, LAMBDA c : f[c.env] # None)
    IN  <<EnvEntry(PATH_KEY, <<"/", "b", "i", "n">>)>>
        \o [i \in 1..Len(set) |-> EnvEntry(set[i].env, f[set[i].env])]
        \o <<EnvEntry(MYSQL_PWD_KEY, <<"p", "w">>)>>

\* the .env file: absent, or holding the first configuration variable
DotenvFiles(v) ==
    { [exists |-> FALSE, entries |-> <<>>],
      [exists |-> TRUE, entries |-> <<EnvEntry(ConfigKeys(v)[1].env, <<"f">>)>>] }

\* access tokens the authority may return, as code points: empty, "AB", and
\* characters whose UTF-8 encodings are two, three and four bytes long
AccessTokens == {<<>>, <<65, 66>>, <<233>>, <<65, 8364>>, <<128512, 66>>}

\* sys.byteorder of the host the process runs on
ByteOrders == {"little", "big"}

QSelect1 == <<"S", "E", "L", "E", "C", "T", " ", "1">>
QSelectLower == <<" ", " ", "s", "e", "l", "e", "c", "t", " ", "1", " ">>
QSelected == <<"S", "E", "L", "E", "C", "T", "E", "D">>
QShowTables == <<"S", "H", "O", "W", " ", "T", "A", "B", "L", "E", "S">>
QInsert == <<"I", "N", "S", "E", "R", "T", " ", "t">>
QSelec == <<"S", "E", "L", "E", "C">>
QBlank == <<" ", " ">>
QDropTable == <<"D", "R", "O", "P", " ", "T", "A", "B", "L", "E", " ", "E", "D", "W", ".", "T", "1">>

Queries == {<<>>, QSelect1, QSelectLower, QSelected, QShowTables, QInsert, QSelec, QBlank,
            QDropTable}

TableT1 == <<"T", "1">>
SchemaEDW == <<"E", "D", "W">>

\* an arguments dict of the SQL tools; None leaves the key out
SqlArgs(query, table, schema) ==
    LET given == [query |-> query, table |-> table, schema |-> schema]
    IN  [k \in {k \in {"query", "table", "schema"} : given[k] # None} |-> given[k]]

\* every arguments dict tried on the SQL tools
SqlArguments ==
    {SqlArgs(q, None, None) : q \in Queries \cup {None}}
    \cup {SqlArgs(None, t, s) : t \in {None, <<>>, TableT1}, s \in {None, <<>>, SchemaEDW}}
    \cup {SqlArgs(QSelect1, TableT1, SchemaEDW), SqlArgs(QShowTables, TableT1, None)}

SqlToolNames == {SqlTools[i].name : i \in DOMAIN SqlTools}
SlackToolNames == {SlackTools[i].name : i \in DOMAIN SlackTools}

ListingRow(schema, table) == [SchemaName |-> PyStr(schema), TableName |-> PyStr(table)]

\* what the table listing view may hold
Listings ==
    { <<>>,
      <<ListingRow(SchemaEDW, TableT1)>>,
      <<ListingRow(SchemaEDW, TableT1), ListingRow(SchemaEDW, <<"a", "/", "b">>)>> }

\* result sets of other queries
ResultSets ==
    { <<>>,
      <<[c1 |-> PyInt1, c2 |-> PyDatetime], [c1 |-> PyBytes, c2 |-> PyDecimal]>>,
      <<[c1 |-> PyBytesNotUtf8, c2 |-> PyUuid]>> }

\* what the driver may do during one client call that would return `rowsets`
Behaviours(rowsets) ==
    {Behaviour("none", rows, "") : rows \in rowsets}
    \cup {Behaviour("execute", <<>>, m) : m \in {"deadlock victim", "syntax error"}}
    \cup {Behaviour("cursor", <<>>, "connection is busy"),
          Behaviour("commit", <<>>, "commit failed"),
          Behaviour("description", <<>>, "")}

\* bodies of Slack's HTTP responses
SlackBodies ==
    { [ok |-> TRUE, access_token |-> <<"x", "o", "x", "p">>],
      [ok |-> TRUE],
      [ok |-> FALSE, error |-> <<"n", "o", "t", "_", "a", "u", "t", "h", "e", "d">>] }

Nets == {Net(FALSE, b) : b \in SlackBodies} \cup {Net(TRUE, [ok |-> FALSE])}

\* every argument the Slack tools take, with one value each
SlackAllArgs ==
    [code |-> <<"c", "0", "d", "e">>, limit |-> 300, channel_id |-> <<"C", "1">>,
     text |-> <<"h", "i">>, thread_ts |-> <<"1", ".", "2">>,
     timestamp |-> <<"1", ".", "2">>, reaction |-> <<"o", "k">>]


ToolRequest(name, arguments, oracle) ==
    [name |-> name, arguments |-> arguments, oracle |-> oracle]

\* whether the SQL call_tool gets as far as a client call with these
\* arguments (both of get_table_schema's, or execute_sql's query, non-empty)
SqlArgsUsable(name, a) ==
    CASE name = "get_tables"       -> TRUE
      [] name = "get_table_schema" -> ~Falsy(DictGet(a, "table")) /\ ~Falsy(DictGet(a, "schema"))
      [] name = "execute_sql"      -> ~Falsy(DictGet(a, "query"))
      [] OTHER                     -> FALSE

\* The call_tool requests tried on the SQL server: every tool name and one
\* unknown name, with every arguments dict that says something about it;
\* where the arguments can reach the driver, every behaviour of the driver,
\* and two of them where they cannot.
SqlRequests ==
    LET argsOf(name) ==
            CASE name = "get_tables" ->
                    {SqlArgs(None, None, None), SqlArgs(QSelect1, TableT1, SchemaEDW)}
              [] name = "get_table_schema" ->
                    {a \in SqlArguments : "query" \notin DOMAIN a \/ "table" \in DOMAIN a}
              [] name = "execute_sql" ->
                    {a \in SqlArguments : "table" \notin DOMAIN a \/ "query" \in DOMAIN a}
              [] OTHER ->
                    {SqlArgs(None, None, None), SqlArgs(QSelect1, TableT1, SchemaEDW),
                     SqlArgs(QInsert, None, None)}
        oraclesOf(name, a) ==
            IF SqlArgsUsable(name, a)
            THEN Behaviours(IF name = "get_tables" THEN Listings ELSE ResultSets)
            ELSE {Behaviour("none", <<>>, ""), Behaviour("execute", <<>>, "syntax error")}
    IN  UNION {{ToolRequest(name, a, be) : be \in oraclesOf(name, a)} :
                 <<name, a>> \in UNION {{<<n, x>> : x \in argsOf(n)} :
                                          n \in SqlToolNames \cup {"nonexistent_tool"}}}

\* The call_tool requests tried on the Slack server: every tool name and one
\* unknown name, each with no argument, every argument, its required set and
\* its required set less one key, under every behaviour of the network.
SlackRequests ==
    LET keySets(name) ==
            LET req == UNION {SlackTools[i].required :
                                 i \in {i \in DOMAIN SlackTools : SlackTools[i].name = name}}
            IN  {{}, DOMAIN SlackAllArgs, req} \cup {req \ {k} : k \in req}
    IN  UNION {{ToolRequest(name, [k \in S |-> SlackAllArgs[k]], net) : net \in Nets} :
                 <<name, S>> \in UNION {{<<n, x>> : x \in keySets(n)} :
                                          n \in SlackToolNames \cup {"nonexistent_tool"}}}

NoReq == [handler |-> "", name |-> "", arguments |-> <<>>, authedBefore |-> FALSE,
          oracle |-> <<>>]
NoResponse == [kind |-> "none", fmt |-> "", body |-> <<>>, exc |-> NoExc]
NotReturned == [returned |-> FALSE, value |-> <<>>]
Unbound == [bound |-> FALSE, server |-> None, database |-> None]

Request(handler, name, arguments, oracle) ==
    [handler |-> handler, name |-> name, arguments |-> arguments,
     authedBefore |-> authOk, oracle |-> oracle]

ResponseOf(r) == [kind |-> r.kind, fmt |-> r.fmt, body |-> r.body, exc |-> r.exc]

---------------------------------------------------------------------------
(* The process: initial state and steps *)

Init ==
    /\ variant \in {"sql", "slack"}
    /\ \E f \in [{ConfigKeys(variant)[i].env : i \in DOMAIN ConfigKeys(variant)} -> EnvValues] :
          os_environ = InitialEnv(variant, f)
    /\ dotenv \in DotenvFiles(variant)
    /\ pc = IF variant = "sql" THEN "main" ELSE "lifespan"
    /\ config = NotReturned
    /\ configLoads = 0
    /\ loaderLog = <<>>
    /\ db = Unbound
    /\ connection = None
    /\ connectCalls = 0
    /\ connectFrame = NoFrame
    /\ disconnectCalls = 0
    /\ resources = <<>>
    /\ yielded = FALSE
    /\ startupFailure = NoExc
    /\ teardownFailure = NoExc
    /\ exitError = NoExc
    /\ user_token = None
    /\ bot_headers = None
    /\ authOk = FALSE
    /\ pending = 0
    /\ running = {}
    /\ handled = 0
    /\ lastReq = NoReq
    /\ response = NoResponse
    /\ backendOps = <<>>
    /\ requestLog = <<>>

clientVars == <<db, connection, connectCalls, connectFrame, disconnectCalls,
                resources, yielded, user_token, bot_headers, authOk>>
requestVars == <<pending, running, handled, lastReq, response, backendOps, requestLog>>

\* One call of the variant's config loader; `next` is where the caller goes
\* on when it returns.  The ValueError it raises is caught nowhere: the
\* caller ends with it.
LoadConfig(next) ==
    LET r == get_config(variant, os_environ, dotenv)
    IN  /\ os_environ' = r.environ
        /\ loaderLog' = r.log
        /\ configLoads' = configLoads + 1
        /\ IF r.exc = NoExc
           THEN /\ config' = [returned |-> TRUE, value |-> r.result]
                /\ pc' = next
                /\ UNCHANGED <<startupFailure, exitError>>
           ELSE /\ config' = NotReturned
                /\ pc' = "stopped"
                /\ startupFailure' = r.exc
                /\ exitError' = r.exc
        /\ UNCHANGED <<variant, dotenv, teardownFailure, clientVars, requestVars>>

\* main() of the SQL server: `config = get_db_config()` before server.run
MainLoadConfig ==
    /\ variant = "sql"
    /\ pc = "main"
    /\ LoadConfig("lifespan")

\* server_lifespan: the config loader call before the try block
LifespanLoadConfig ==
    /\ pc = "lifespan"
    /\ LoadConfig("construct")

\* SQL server_lifespan: db = MicrosoftAzureSQL(...)
SqlConstruct ==
    /\ variant = "sql"
    /\ pc = "construct"
    /\ db' = [bound |-> TRUE, server |-> config.value["server"],
              database |-> config.value["database"]]
    /\ connection' = None
    /\ pc' = "connect"
    /\ UNCHANGED <<variant, os_environ, dotenv, config, configLoads, loaderLog,
                   connectCalls, connectFrame, disconnectCalls, resources, yielded,
                   startupFailure, teardownFailure, exitError, user_token,
                   bot_headers, authOk, requestVars>>

\* SQL server_lifespan: db.connect(), up to the converted token.  The token
\* request may raise, which ends connect() with __connection still None;
\* otherwise the token it returns is converted on a host of either byte order.
SqlConnect ==
    /\ variant = "sql"
    /\ pc = "connect"
    /\ connectCalls' = connectCalls + 1
    /\ \/ /\ connectFrame' = NoFrame
          /\ pc' = "finally"
          /\ startupFailure' = Exc("adal.AdalError", <<"token request failed">>)
          /\ exitError' = Exc("adal.AdalError", <<"token request failed">>)
       \/ /\ \E accessToken \in AccessTokens, order \in ByteOrders :
                connectFrame' = [live |-> TRUE, accessToken |-> accessToken,
                                 byteorder |-> order,
                                 converted_token |-> convert_token(accessToken, order)]
          /\ pc' = "pyodbc_connect"
          /\ UNCHANGED <<startupFailure, exitError>>
    /\ UNCHANGED <<variant, os_environ, dotenv, config, configLoads, loaderLog, db,
                   connection, disconnectCalls, resources, yielded, teardownFailure,
                   user_token, bot_headers, authOk, requestVars>>

\* connect(), its last statement: pyodbc.connect(..., attrs_before = {1256:
\* converted_token}) sets __connection, or raises and leaves it None.  The
\* frame of connect() is gone when it returns or raises.
SqlPyodbcConnect ==
    /\ variant = "sql"
    /\ pc = "pyodbc_connect"
    /\ connectFrame' = NoFrame
    /\ \/ /\ connection' = ConnOpen
          /\ pc' = "enumerate"
          /\ UNCHANGED <<startupFailure, exitError>>
       \/ /\ connection' = connection
          /\ pc' = "finally"
          /\ startupFailure' = Exc("pyodbc.Error", <<"login failed">>)
          /\ exitError' = Exc("pyodbc.Error", <<"login failed">>)
    /\ UNCHANGED <<variant, os_environ, dotenv, config, configLoads, loaderLog, db,
                   connectCalls, disconnectCalls, resources, yielded, teardownFailure,
                   user_token, bot_headers, authOk, requestVars>>

\* SQL server_lifespan: the table listing query, the resources built from
\* its rows, and the yield of the ServerContext.
SqlEnumerate ==
    /\ variant = "sql"
    /\ pc = "enumerate"
    /\ \E be \in Behaviours(Listings) :
          LET r == execute_query(connection, get_all_table_query, be)
          IN  /\ backendOps' = r.ops
              /\ IF r.exc = NoExc
                 THEN /\ resources' = [i \in 1..Len(r.rows) |->
                                          MakeResource(db.server, db.database, r.rows[i])]
                      /\ yielded' = TRUE
                      /\ pc' = "serving"
                      /\ UNCHANGED <<startupFailure, exitError>>
                 ELSE /\ pc' = "finally"
                      /\ startupFailure' = r.exc
                      /\ exitError' = r.exc
                      /\ UNCHANGED <<resources, yielded>>
    /\ UNCHANGED <<variant, os_environ, dotenv, config, configLoads, loaderLog, db,
                   connection, connectCalls, connectFrame, disconnectCalls,
                   teardownFailure, user_token, bot_headers, authOk, pending, running,
                   handled, lastReq, response, requestLog>>

\* Slack server_lifespan: the try block up to the yield
SlackStart ==
    /\ variant = "slack"
    /\ pc = "construct"
    /\ user_token' = None
    /\ bot_headers' = None
    /\ resources' = <<>>
    /\ yielded' = TRUE
    /\ pc' = "serving"
    /\ UNCHANGED <<variant, os_environ, dotenv, config, configLoads, loaderLog, db,
                   connection, connectCalls, connectFrame, disconnectCalls,
                   startupFailure, teardownFailure, exitError, authOk, requestVars>>

processVars == <<variant, pc, os_environ, dotenv, config, configLoads, loaderLog,
                 startupFailure, teardownFailure, exitError>>

\* server.run: the host delivers one more request while others may still
\* wait for their handler; each becomes a task of the event loop.
HostDeliver ==
    /\ pc = "serving"
    /\ handled + pending + Cardinality(running) < MaxRequests
    /\ pending' = pending + 1
    /\ UNCHANGED <<processVars, clientVars, running, handled, lastReq, response,
                   backendOps, requestLog>>

\* What every handler call records of itself when it returns or raises.
Handle(req, r) ==
    /\ handled' = handled + 1
    /\ lastReq' = req
    /\ response' = ResponseOf(r)
    /\ backendOps' = r.ops
    /\ requestLog' = r.log

\* The event loop begins the handler of a delivered request.
Serving ==
    /\ pc = "serving"
    /\ pending > 0
    /\ pending' = pending - 1

\* The await expressions in the body of a handler, each given as the number
\* of backend operations the body has issued when it is reached: the
\* handlers are coroutines that await nothing.
AwaitPoints_between_operations(handler) == {1, 2}
AwaitPoints(handler) == {}

\* where a handler that has issued `from` of its operations `ops` gives the
\* event loop back next: at its next await expression, or when it ends
NextStop(handler, ops, from) ==
    LET later == {k \in AwaitPoints(handler) : from < k /\ k < Len(ops)}
    IN  IF later = {} THEN Len(ops) ELSE SetMin(later)

Task(req, issued) == [req |-> req, issued |-> issued]

\* The event loop runs the call_tool invocation for `req`, which has issued
\* `from` of its backend operations, until it awaits or ends.
RunCallTool(req, from) ==
    LET r    == sql_call_tool(connection, req.name, req.arguments, req.oracle)
        stop == NextStop("call_tool", r.ops, from)
    IN  IF stop < Len(r.ops)
        THEN /\ running' = (running \ {Task(req, from)}) \cup {Task(req, stop)}
             /\ UNCHANGED <<handled, lastReq, response, backendOps, requestLog>>
        ELSE /\ running' = running \ {Task(req, from)}
             /\ Handle(Request("call_tool", req.name, req.arguments, req.oracle), r)

\* A call_tool request to the SQL server: the event loop begins the handler
\* of a delivered request, or goes on with one that awaited.
SqlCallTool ==
    /\ variant = "sql"
    /\ \/ /\ Serving
          /\ \E req \in SqlRequests : RunCallTool(req, 0)
       \/ /\ pc = "serving"
          /\ pending' = pending
          /\ \E t \in running : RunCallTool(t.req, t.issued)
    /\ UNCHANGED <<processVars, clientVars>>

\* A read_resource request: an advertised URI, or one of three others.
SqlReadResource ==
    /\ variant = "sql"
    /\ Serving
    /\ \E uri \in {resources[i].uri : i \in DOMAIN resources}
                  \cup {<<"h", "t", "t", "p", ":", "/", "/", "x">>,
                        UriScheme \o <<"h", "1", "/", "h", "1">>,
                        UriScheme \o <<"h", "1", "/", "h", "1", "/", "E", "D", "W", "/", "T", "9">>} :
          \E be \in Behaviours(ResultSets) :
             Handle(Request("read_resource", "", [uri |-> uri], be),
                    read_resource(connection, uri, be))
    /\ UNCHANGED <<processVars, clientVars, running>>

\* A list_resources request.
SqlListResources_reconnecting ==
    /\ variant = "sql"
    /\ Serving
    /\ Handle(Request("list_resources", "", <<>>, <<>>), list_resources(resources))
    /\ connectCalls' = connectCalls + 1
    /\ connection' = ConnOpen
    /\ UNCHANGED <<processVars, db, connectFrame, disconnectCalls, resources, yielded,
                   user_token, bot_headers, authOk, running>>
SqlListResources ==
    /\ variant = "sql"
    /\ Serving
    /\ Handle(Request("list_resources", "", <<>>, <<>>), list_resources(resources))
    /\ UNCHANGED <<processVars, clientVars, running>>

\* A list_tools request (either server); list_prompts of the SQL server.
ListCatalog ==
    /\ Serving
    /\ \E h \in IF variant = "sql" THEN {"list_tools", "list_prompts"} ELSE {"list_tools"} :
          Handle(Request(h, "", <<>>, <<>>),
                 [kind |-> "list", fmt |-> "{catalog}",
                  body |-> IF variant = "sql" THEN SqlTools ELSE SlackTools,
                  exc |-> NoExc, ops |-> <<>>,
                  log |-> <<LogRec("INFO", "Listing...", <<>>)>>])
    /\ UNCHANGED <<processVars, clientVars, running>>

\* A call_tool request to the Slack server.
SlackCallTool ==
    /\ variant = "slack"
    /\ Serving
    /\ \E req \in SlackRequests :
          LET r == slack_call_tool(user_token, bot_headers, req.name, req.arguments,
                                   req.oracle)
          IN  /\ Handle(Request("call_tool", req.name, req.arguments, req.oracle), r.res)
              /\ user_token' = r.user_token
              /\ bot_headers' = r.bot_headers
              /\ authOk' = (authOk \/ (req.name = "authenticate" /\ r.res.kind = "text"))
    /\ UNCHANGED <<processVars, db, connection, connectCalls, connectFrame,
                   disconnectCalls, resources, yielded, running>>

\* server.run ends: the transport closed (NoExc), or an error that no
\* handler caught is thrown into the lifespan at its yield.  The tasks of
\* the requests not yet handled are cancelled.
Stop ==
    /\ pc = "serving"
    /\ \E e \in {NoExc, Exc("Exception", <<"server error">>)} : exitError' = e
    /\ pc' = "finally"
    /\ pending' = 0
    /\ running' = {}
    /\ UNCHANGED <<variant, os_environ, dotenv, config, configLoads, loaderLog,
                   startupFailure, teardownFailure, clientVars, handled, lastReq,
                   response, backendOps, requestLog>>

\* The finally block of server_lifespan: db.disconnect() (SQL), pass (Slack).
LifespanFinally ==
    /\ pc = "finally"
    /\ pc' = "stopped"
    /\ IF variant = "sql"
       THEN \E closes \in BOOLEAN :
               LET f == sql_finally(db, connection, exitError, closes)
               IN  /\ disconnectCalls' = disconnectCalls + f.calls
                   /\ connection' = f.connection
                   /\ teardownFailure' = f.raised
                   /\ exitError' = f.exit
       ELSE UNCHANGED <<disconnectCalls, connection, teardownFailure, exitError>>
    /\ UNCHANGED <<variant, os_environ, dotenv, config, configLoads, loaderLog, db,
                   connectCalls, connectFrame, resources, yielded, startupFailure,
                   user_token, bot_headers, authOk, requestVars>>

Next ==
    \/ MainLoadConfig
    \/ LifespanLoadConfig
    \/ SqlConstruct
    \/ SqlConnect
    \/ SqlPyodbcConnect
    \/ SqlEnumerate
    \/ SlackStart
    \/ HostDeliver
    \/ SqlCallTool
    \/ SqlReadResource
    \/ SqlListResources
    \/ ListCatalog
    \/ SlackCallTool
    \/ Stop
    \/ LifespanFinally

Spec == Init /\ [][Next]_vars

---------------------------------------------------------------------------
(* Properties *)

\* the last handler call was a call_tool request
IsToolCall == lastReq.handler = "call_tool"

\* the required parameters list_tools declares for a tool of the variant
RequiredOf(v, name) ==
    LET tools == IF v = "sql" THEN SqlTools ELSE SlackTools
    IN  UNION {tools[i].required : i \in {i \in DOMAIN tools : tools[i].name = name}}

CatalogOf(v) == IF v = "sql" THEN SqlToolNames ELSE SlackToolNames

\* every required parameter is given, and given a non-empty value
ArgumentsValid ==
    \A k \in RequiredOf(variant, lastReq.name) :
        k \in DOMAIN lastReq.arguments /\ lastReq.arguments[k] # <<>>

\* the driver raised during the last SQL handler call: the last operation
\* issued is the one the driver fails
DriverRaised ==
    /\ backendOps # <<>>
    /\ lastReq.oracle.fail \in {"cursor", "execute", "commit"}
    /\ backendOps[Len(backendOps)].op = lastReq.oracle.fail

\* C1: for every SQL tool called with valid arguments, when the backend call
\* raises, call_tool returns the text 'Error executing query: <message>' and
\* raises nothing.
C1_BackendFailureReportedInBand ==
    (variant = "sql" /\ IsToolCall /\ lastReq.name \in SqlToolNames
        /\ ArgumentsValid /\ DriverRaised)
    => /\ response.kind = "text"
       /\ response.fmt = "Error executing query: {str(e)}"
       /\ response.body = <<lastReq.oracle.msg>>

\* the Slack tools other than get_auth_url and authenticate
SlackGuardedTools == SlackToolNames \ {"get_auth_url", "authenticate"}

\* C2: a Slack client call other than get_auth_url/authenticate made while no
\* authenticate has succeeded fails with 'not authenticated', and no HTTP
\* request is issued for it.
C2_UnauthenticatedCallRefused ==
    (variant = "slack" /\ IsToolCall /\ lastReq.name \in SlackGuardedTools
        /\ RequiredOf("slack", lastReq.name) \subseteq DOMAIN lastReq.arguments
        /\ ~lastReq.authedBefore)
    => /\ response.kind = "raised"
       /\ response.exc = Exc("Exception", <<"Not authenticated. Please authenticate first.">>)
       /\ backendOps = <<>>

\* C3: on every path that stops the SQL server after the config was loaded,
\* the lifespan teardown raises no error of its own (a failure inside
\* disconnect() is not re-raised).
C3_TeardownRaisesNothing ==
    (variant = "sql" /\ pc = "stopped" /\ config.returned)
    => teardownFailure = NoExc

\* C4: in every run of the SQL server in which connect() succeeded,
\* disconnect() has been called exactly once when the process has stopped,
\* and once it has been called no further request is handled.
C4_DisconnectOnceAfterLastRequest ==
    /\ []((variant = "sql" /\ connection # None)
             => /\ disconnectCalls <= 1
                /\ (pc = "stopped" => disconnectCalls = 1)
                /\ (pc \in {"enumerate", "serving", "finally"} => disconnectCalls = 0))
    /\ [][(variant = "sql" /\ disconnectCalls >= 1) => handled' = handled]_vars

\* C4 happens: the SQL server stopped with an error in flight after it had
\* handled requests, and disconnect() was called once.
C4_Witness ==
    /\ variant = "sql"
    /\ pc = "stopped"
    /\ handled >= 1
    /\ exitError = Exc("Exception", <<"server error">>)
    /\ connection = ConnClosed
    /\ disconnectCalls = 1

\* C5: call_tool('execute_sql', {query: 'SHOW TABLES'}) does not send the
\* text 'SHOW TABLES' to the backend: a fixed metadata query is run as a
\* row-returning query (no commit) and its rows are the response.
C5_ShowTablesRewritten ==
    (variant = "sql" /\ IsToolCall /\ lastReq.name = "execute_sql"
        /\ DictGet(lastReq.arguments, "query") = QShowTables)
    => /\ \A i \in DOMAIN backendOps :
             /\ backendOps[i].sql # SqlText(QShowTables)
             /\ backendOps[i].op # "commit"
       /\ response.fmt # "Query executed successfully"

\* C6: for every tool of the variant's catalog and every arguments mapping
\* that lacks a parameter the tool's list_tools schema requires, call_tool
\* raises, and it issues no backend call.
C6_MissingRequiredArgumentRaises ==
    (IsToolCall /\ lastReq.name \in CatalogOf(variant)
        /\ ~(RequiredOf(variant, lastReq.name) \subseteq DOMAIN lastReq.arguments))
    => /\ response.kind = "raised"
       /\ response.exc.type \in {"ValueError", "KeyError"}
       /\ backendOps = <<>>

\* C6 happens: post_reply was called with channel_id and thread_ts but no
\* text, and raised the KeyError of the missing key.
C6_Witness ==
    /\ variant = "slack"
    /\ IsToolCall
    /\ lastReq.name = "post_reply"
    /\ DOMAIN lastReq.arguments = {"channel_id", "thread_ts"}
    /\ response.kind = "raised"
    /\ response.exc = Exc("KeyError", <<"text">>)

\* C7: in both variants a call_tool step whose name is not in the catalog
\* raises 'Unknown tool' whatever the arguments are, issues no backend call
\* and leaves the client's state as it was.
C7_UnknownToolRaises ==
    [][(handled' = handled + 1 /\ lastReq'.handler = "call_tool"
           /\ lastReq'.name \notin CatalogOf(variant))
       => /\ response'.kind = "raised"
          /\ response'.exc = Exc("ValueError", <<"Unknown tool: ", lastReq'.name>>)
          /\ backendOps' = <<>>
          /\ UNCHANGED <<db, connection, connectCalls, disconnectCalls, resources,
                         user_token, bot_headers, authOk>>]_vars

\* C7 happens: an unknown tool was called with arguments that lack nothing
\* a tool could ask for, on an authenticated Slack client, and raised.
C7_Witness ==
    /\ variant = "slack"
    /\ IsToolCall
    /\ lastReq.name = "nonexistent_tool"
    /\ DOMAIN lastReq.arguments = DOMAIN SlackAllArgs
    /\ bot_headers # None
    /\ response.exc = Exc("ValueError", <<"Unknown tool: ", "nonexistent_tool">>)

\* C8: if a startup step of the SQL server fails, the lifespan never yields
\* a server context (no handler runs) and startup ends with the original
\* failure.
C8_StartupAbortsWithOriginalFailure ==
    (variant = "sql" /\ pc = "stopped" /\ startupFailure # NoExc)
    => /\ ~yielded
       /\ handled = 0
       /\ exitError = startupFailure

\* the config keys whose environment variable is not set or is empty
MissingKeys ==
    LET keys == ConfigKeys(variant)
    IN  {keys[i].key : i \in {i \in DOMAIN keys :
            ~\E j \in DOMAIN os_environ :
                os_environ[j].key = keys[i].env /\ os_environ[j].value # <<>>}}

\* the config keys an exception's message names
KeysNamedBy(exc) ==
    LET keys == ConfigKeys(variant)
    IN  {keys[i].key : i \in {i \in DOMAIN keys :
            \E j \in DOMAIN exc.msg : exc.msg[j] = keys[i].key}}

\* the log records of the last loader call of one format
LoaderLogOf(fmt) == {i \in DOMAIN loaderLog : loaderLog[i].fmt = fmt}

\* C9 as stated: when required keys are absent or empty the config loader
\* fails, the error it raises names exactly the missing keys, and no
\* credentials mapping is returned.
C9_RaisedErrorNamesMissingKeys ==
    (configLoads >= 1 /\ MissingKeys # {})
    => /\ pc = "stopped"
       /\ ~config.returned
       /\ KeysNamedBy(exitError) = MissingKeys

\* C9 as amended: when required keys are absent or empty (after the .env
\* merge) the config loader fails with the fixed ValueError of the variant,
\* which does not list the keys; the one 'Missing environment variables'
\* error record logged before it names exactly the missing config keys; and
\* no credentials mapping is returned.
C9_LoaderFailsAndLogsMissingKeys ==
    (configLoads >= 1 /\ MissingKeys # {})
    => /\ pc = "stopped"
       /\ ~config.returned
       /\ exitError = Exc("ValueError",
                          IF variant = "sql"
                          THEN <<"Missing", "required", "database", "configuration">>
                          ELSE <<"Missing", "required", "Slack", "configuration">>)
       /\ \E i \in DOMAIN loaderLog :
             /\ LoaderLogOf("Missing environment variables: {join}") = {i}
             /\ loaderLog[i].level = "ERROR"
             /\ {loaderLog[i].args[j] : j \in DOMAIN loaderLog[i].args} = MissingKeys
             /\ Len(loaderLog[i].args) = Cardinality(MissingKeys)

\* C9 happens: the SQL loader failed with server set, database empty and
\* client_secret not set.
C9_Witness ==
    /\ variant = "sql"
    /\ configLoads = 1
    /\ pc = "stopped"
    /\ MissingKeys = {"database", "client_secret"}
    /\ getenv(os_environ, AZURE_SQL_DATABASE) = <<>>
    /\ getenv(os_environ, AZURE_CLIENT_SECRET) = None

\* a query text that, stripped and upper-cased, starts with SELECT: after
\* leading whitespace come the six letters, in either case
SelectLikeText(q) ==
    \E i \in DOMAIN q :
        /\ \A j \in 1..(i - 1) : IsSpace(q[j])
        /\ i + 5 <= Len(q)
        /\ \A k \in 1..6 : UpperChar(q[i + k - 1]) = <<"S", "E", "L", "E", "C", "T">>[k]

\* C10: an execute_sql call whose query is SELECT-like and for which the
\* backend returns zero rows answers exactly 'No results found'.
C10_EmptySelectSaysNoResults ==
    (variant = "sql" /\ IsToolCall /\ lastReq.name = "execute_sql"
        /\ "query" \in DOMAIN lastReq.arguments
        /\ SelectLikeText(lastReq.arguments["query"])
        /\ lastReq.oracle.fail \in {"none", "commit"}
        /\ lastReq.oracle.rows = <<>>)
    => /\ response.kind = "text"
       /\ response.fmt = "No results found"
       /\ response.body = <<>>

\* C10 happens: '  select 1 ' returned no rows and was answered with the
\* literal.
C10_Witness ==
    /\ variant = "sql"
    /\ IsToolCall
    /\ lastReq.name = "execute_sql"
    /\ DictGet(lastReq.arguments, "query") = QSelectLower
    /\ lastReq.oracle = Behaviour("none", <<>>, "")
    /\ backendOps[Len(backendOps)].op = "fetchall"
    /\ response.fmt = "No results found"

\* the four bytes of n as a 32-bit little-endian integer
Int32LE(n) == <<n % 256, (n \div 256) % 256, (n \div 65536) % 256, (n \div 16777216) % 256>>

\* the source bytes, each followed by 0x00, make up the packed attribute
\* after its four-byte header
InterleavedAfterHeader(packed, b) ==
    /\ Len(packed) = 4 + 2 * Len(b)
    /\ \A i \in DOMAIN b : packed[4 + 2 * i - 1] = b[i] /\ packed[4 + 2 * i] = 0

\* C11 as stated: for every access token with UTF-8 bytes b[0..n-1] the
\* packed attribute is the little-endian int32 2n followed by b[0],0x00, ...,
\* b[n-1],0x00, and is 4+2n bytes long.
C11_PackedTokenLittleEndian ==
    connectFrame.live
    => LET b == Utf8(connectFrame.accessToken)
       IN  /\ SubSeq(connectFrame.converted_token, 1, 4) = Int32LE(2 * Len(b))
           /\ InterleavedAfterHeader(connectFrame.converted_token, b)

\* C11 as amended: the packed attribute is 4+2n bytes long and is the int32
\* 2n in the byte order of the host (little-endian on a little-endian host,
\* the same four bytes reversed on a big-endian one) followed by b[0],0x00,
\* ..., b[n-1],0x00.
C11_PackedTokenNativeOrder ==
    connectFrame.live
    => LET b  == Utf8(connectFrame.accessToken)
           le == Int32LE(2 * Len(b))
           h  == SubSeq(connectFrame.converted_token, 1, 4)
       IN  /\ connectFrame.byteorder = "little" => h = le
           /\ connectFrame.byteorder = "big" => h = <<le[4], le[3], le[2], le[1]>>
           /\ InterleavedAfterHeader(connectFrame.converted_token, b)

\* C11 happens: the token "A" + U+20AC (four UTF-8 bytes) was packed on a
\* little-endian host into the twelve bytes 8,0,0,0, 65,0, 226,0, 130,0, 172,0.
C11_Witness ==
    /\ connectFrame.live
    /\ connectFrame.byteorder = "little"
    /\ connectFrame.accessToken = <<65, 8364>>
    /\ connectFrame.converted_token = <<8, 0, 0, 0, 65, 0, 226, 0, 130, 0, 172, 0>>

\* what the rules, tried in their order, make of a value json.dumps cannot
\* serialise itself
RenderedByFirstRule(v, out) ==
    IF "isoformat" \in v.attrs
    THEN out = [json |-> "string", value |-> v.iso]
    ELSE IF "to_eng_string" \in v.attrs
    THEN out = [json |-> "string", value |-> v.str]
    ELSE IF v.type = "bytes"
    THEN out = [json |-> "string", value |-> v.decoded]
    ELSE \/ out = [json |-> "string", value |-> v.str]
         \/ out = [json |-> "null", value |-> None] /\ v.str = None

\* C12: every value of a returned row that is not JSON-native is rendered by
\* the first rule that matches it, in the order timestamp-like (ISO-8601
\* string), decimal-like (its string), binary (UTF-8 decoded), anything else
\* (its string, or null); a timestamp is never rendered by a later rule.
C12_FirstMatchingRuleRenders ==
    (variant = "sql" /\ lastReq.handler \in {"call_tool", "read_resource"}
        /\ response.kind = "text" /\ response.fmt = "{json}")
    => \A i \in DOMAIN response.body : \A c \in DOMAIN response.body[i] :
          LET v == lastReq.oracle.rows[i][c]
          IN  v.type \notin JsonNativeTypes => RenderedByFirstRule(v, response.body[i][c])

\* C12 happens: a result set with a datetime, a Decimal and UTF-8 bytes was
\* returned, the datetime as its ISO-8601 string (with the 'T' that str()
\* does not give it), the bytes decoded.
C12_Witness ==
    /\ variant = "sql"
    /\ lastReq.handler = "read_resource"
    /\ response.fmt = "{json}"
    /\ Len(response.body) = 2
    /\ response.body[1]["c2"] = [json |-> "string", value |-> PyDatetime.iso]
    /\ PyDatetime.iso # PyDatetime.str
    /\ response.body[2]["c1"] = [json |-> "string", value |-> <<"a", "b">>]
    /\ response.body[2]["c2"] = [json |-> "string", value |-> PyDecimal.str]

\* two secrets of different lengths
SecretValues == {<<"h", "1">>, <<"s", "3", "c", "r", "3", "t">>}

\* the environment variables the variant's loader reads
ConfigEnvNames(v) == {ConfigKeys(v)[i].env : i \in DOMAIN ConfigKeys(v)}

\* the same environment, the same keys present in the same order, with the
\* non-empty value of every configuration variable replaced by g's
Revalued(environ, g) ==
    [i \in DOMAIN environ |->
        IF environ[i].key \in DOMAIN g /\ environ[i].value # <<>>
        THEN EnvEntry(environ[i].key, g[environ[i].key])
        ELSE environ[i]]

\* C13: the log of the config loader does not depend on secret values: in
\* any environment with the same keys present but other values for them,
\* the loader logs the very same records as it did in this one.
C13_LogIndependentOfSecretValues ==
    configLoads >= 1
    => \A g \in [ConfigEnvNames(variant) -> SecretValues] :
          get_config(variant, Revalued(os_environ, g), dotenv).log = loaderLog

\* C14: the resource list is built once, at startup: no step after the
\* lifespan has yielded changes it (whatever call_tool and read_resource
\* requests are handled, statements that drop tables included), and
\* list_resources returns exactly that list and issues no backend query.
C14_ResourceListFixedAtStartup ==
    /\ []((variant = "sql" /\ lastReq.handler = "list_resources")
             => /\ response.kind = "list"
                /\ response.body = resources
                /\ backendOps = <<>>)
    /\ [][(variant = "sql" /\ yielded) => resources' = resources]_vars

\* C14 happens: list_resources answered, as the second request of the run,
\* with the two resources built at startup.
C14_Witness ==
    /\ variant = "sql"
    /\ handled = 2
    /\ lastReq.handler = "list_resources"
    /\ Len(resources) = 2
    /\ response.body = resources
    /\ backendOps = <<>>

\* C15: with several call_tool requests delivered at once, at most one
\* invocation is executing at any time: an invocation begins, or issues
\* backend operations, only when no other invocation has begun and not yet
\* returned, so the operations of two invocations never interleave on the
\* connection.
C15_OneInvocationAtATime ==
    /\ [](variant = "sql" => Cardinality(running) <= 1)
    /\ [][(variant = "sql" /\ pending' < pending /\ pc' = "serving") => running = {}]_vars
    /\ [][(variant = "sql" /\ handled' = handled + 1) => running' = {}]_vars

\* C15 happens: two call_tool requests were delivered together; one has run
\* its statement through cursor, execute and commit and has returned while
\* the other still waits for its handler to begin.
C15_Witness ==
    /\ variant = "sql"
    /\ pc = "serving"
    /\ pending = 1
    /\ handled = 1
    /\ running = {}
    /\ lastReq.handler = "call_tool"
    /\ lastReq.name = "execute_sql"
    /\ Len(backendOps) = 3
    /\ backendOps[3].op = "commit"
    /\ response.fmt = "Query executed successfully"

\* the positions of the commits among the last handler's backend operations
CommitsIssued == {i \in DOMAIN backendOps : backendOps[i].op = "commit"}

\* C16: an execute_sql call with a query that is not SELECT-like executes
\* the statement and then commits exactly once and answers 'Query executed
\* successfully' with no rows; when the execute step (or the cursor before
\* it) raises, no commit is issued; a SELECT-like query never commits.
C16_StatementCommitsOnce ==
    (variant = "sql" /\ IsToolCall /\ lastReq.name = "execute_sql"
        /\ "query" \in DOMAIN lastReq.arguments /\ lastReq.arguments["query"] # <<>>)
    => LET q == lastReq.arguments["query"]
       IN  IF SelectLikeText(q)
           THEN CommitsIssued = {}
           ELSE /\ lastReq.oracle.fail \in {"none", "description"}
                   => /\ backendOps = <<BackendOp("cursor", NoSql),
                                        BackendOp("execute", SqlText(q)),
                                        BackendOp("commit", NoSql)>>
                      /\ response.kind = "text"
                      /\ response.fmt = "Query executed successfully"
                      /\ response.body = <<>>
                /\ lastReq.oracle.fail \in {"cursor", "execute"}
                   => /\ CommitsIssued = {}
                      /\ response.fmt = "Error executing query: {str(e)}"
                /\ lastReq.oracle.fail = "commit" => CommitsIssued = {Len(backendOps)}

\* C16 happens: 'DROP TABLE EDW.T1' was executed and committed once and
\* answered with the success text.
C16_Witness ==
    /\ variant = "sql"
    /\ IsToolCall
    /\ lastReq.name = "execute_sql"
    /\ DictGet(lastReq.arguments, "query") = QDropTable
    /\ backendOps = <<BackendOp("cursor", NoSql), BackendOp("execute", SqlText(QDropTable)),
                      BackendOp("commit", NoSql)>>
    /\ response.fmt = "Query executed successfully"
    /\ response.body = <<>>

\* C17: in one run of the SQL server the credentials are loaded and
\* validated exactly once, at startup and before any backend call: the
\* loader has run once when the client is constructed, and never runs again.
C17_CredentialsLoadedOnce ==
    variant = "sql"
    => /\ configLoads <= 1
       /\ (db.bound \/ connectCalls >= 1) => configLoads = 1

\* C18: one run has at most one connection: connect() is called at most
\* once, by the lifespan at startup before any request; no request handler
\* calls connect() or disconnect() or replaces the connection; and every
\* request of the SQL server is handled on the connection opened at startup.
C18_SingleConnectionPerRun ==
    /\ [](connectCalls <= 1)
    /\ [][connectCalls' # connectCalls
            => /\ pc = "connect" /\ handled = 0 /\ ~yielded
               /\ connectCalls' = connectCalls + 1]_vars
    /\ [][handled' # handled
            => /\ UNCHANGED <<connection, connectCalls, disconnectCalls>>
               /\ variant = "sql" => connection = ConnOpen /\ connectCalls = 1]_vars

\* C18 happens: the second request of a run, a read_resource that queried
\* the backend, was handled on the one connection opened at startup.
C18_Witness ==
    /\ variant = "sql"
    /\ pc = "serving"
    /\ handled = 2
    /\ lastReq.handler = "read_resource"
    /\ Len(backendOps) = 3
    /\ connection = ConnOpen
    /\ connectCalls = 1
    /\ disconnectCalls = 0

\* the text of the query a read of the table named `name` has to issue
SelectAllFrom(name) ==
    <<"S", "E", "L", "E", "C", "T", " ", "*", " ", "F", "R", "O", "M", " ">> \o name

\* C19: for every resource built at startup, read_resource on its advertised
\* URI issues exactly one backend query, 'SELECT * FROM <schema>.<table>'
\* for the schema and table the resource was built from, and parse_uri of
\* the URI gives back the server, database, schema and table it was built of.
C19_ResourceUriRoundTrips ==
    (variant = "sql" /\ lastReq.handler = "read_resource" /\ lastReq.oracle.fail # "cursor")
    => \A i \in DOMAIN resources :
          resources[i].uri = lastReq.arguments["uri"]
          => LET u == parse_uri(resources[i].uri)
                 queries == {j \in DOMAIN backendOps : backendOps[j].op = "execute"}
             IN  /\ u.exc = NoExc
                 /\ u.server = db.server
                 /\ u.database = db.database
                 /\ u.schema \o <<".">> \o u.table = resources[i].name
                 /\ Cardinality(queries) = 1
                 /\ \A j \in queries :
                       backendOps[j].sql = SqlText(SelectAllFrom(resources[i].name))

=============================================================================
